---- MODULE Spec2Model ----
(***************************************************************************)
(* Model of the FAQ retrieval engine of src/agent/rag_system.py (class     *)
(* RAGSystem) and of the tool callback of src/agent/voice_agent.py.        *)
(*                                                                         *)
(* Text is a sequence of tokens.  The two markers 'Question:' and          *)
(* 'Answer:' and the blank-line separator '\n\n' are single tokens; "x"    *)
(* is any other non-blank character and " " a blank one.                   *)
(* The FAISS index (IndexFlatL2) and the sentence embedding model are      *)
(* libraries: the index is modelled by what its search returns (exact      *)
(* squared L2 distance, ascending, order of equal distances not fixed,     *)
(* missing neighbours padded with label -1), the embedding model as an     *)
(* unknown but deterministic function from text to vectors.                *)
(***************************************************************************)
EXTENDS Integers, Sequences, FiniteSets, TLC

VARIABLES content, questions, answers, documents, index, pc, ret

vars == <<content, questions, answers, documents, index, pc, ret>>

----------------------------------------------------------------------------
(* Bounds of the model *)

\* longest knowledge-base file, in tokens
MaxLen == 5

\* embedding coordinates are 0..MaxCoord (dimension 1)
MaxCoord == 1

\* largest top_k a caller passes
MaxK == 2

\* bits of the significand of the modelled binary floating point format
MantBits == 4

\* distances of the confidence specification are 0..DistUnitsPerTen + ExtraDist
ExtraDist == 12

----------------------------------------------------------------------------
(* Text *)

QuestionMarker == "Question:"

AnswerMarker == "Answer:"

BlankLine == "\n\n"

Tokens == {QuestionMarker, AnswerMarker, "x", " ", BlankLine}

\* str.isspace of one token
IsSpace(t) == t \in {" ", BlankLine}

RECURSIVE LStrip(_)
LStrip(s) ==
    IF s # <<>> /\ IsSpace(Head(s)) THEN LStrip(Tail(s)) ELSE s

RECURSIVE RStrip(_)
RStrip(s) ==
    IF s # <<>> /\ IsSpace(s[Len(s)]) THEN RStrip(SubSeq(s, 1, Len(s) - 1)) ELSE s

\* str.strip()
Strip(s) == RStrip(LStrip(s))

\* `sep in s`
Contains(s, sep) == \E i \in 1..Len(s) : s[i] = sep

\* position of the first occurrence of sep in s (0 when there is none)
Find(s, sep) ==
    IF Contains(s, sep)
    THEN CHOOSE i \in 1..Len(s) : s[i] = sep /\ \A j \in 1..(i - 1) : s[j] # sep
    ELSE 0

\* s.split(sep): the list of the parts between the occurrences of sep
RECURSIVE Split(_, _)
Split(s, sep) ==
    IF ~Contains(s, sep)
    THEN <<s>>
    ELSE <<SubSeq(s, 1, Find(s, sep) - 1)>>
            \o Split(SubSeq(s, Find(s, sep) + 1, Len(s)), sep)

\* s.replace(old, ''): every occurrence of old removed
RECURSIVE Replace(_, _)
Replace(s, old) ==
    IF s = <<>> THEN <<>>
    ELSE IF Head(s) = old THEN Replace(Tail(s), old)
    ELSE <<Head(s)>> \o Replace(Tail(s), old)

\* all token sequences of length at most n
SeqsUpTo(S, n) == UNION {[1..m -> S] : m \in 0..n}

----------------------------------------------------------------------------
(* _load_knowledge_base: parsing *)

\* the blocks of the file
Pairs(text) == Split(Strip(text), BlankLine)

\* the test that admits a block
Admitted(pair) == Contains(pair, QuestionMarker) /\ Contains(pair, AnswerMarker)

\* the question stored for an admitted block
QuestionOf(pair) == Strip(Replace(Split(pair, AnswerMarker)[1], QuestionMarker))

\* the answer stored for an admitted block
AnswerOf(pair) == Strip(Split(pair, AnswerMarker)[2])

\* the admitted blocks, in file order
RECURSIVE Kept(_)
Kept(pairs) ==
    IF pairs = <<>> THEN <<>>
    ELSE IF Admitted(Head(pairs)) THEN <<Head(pairs)>> \o Kept(Tail(pairs))
    ELSE Kept(Tail(pairs))

ParsedDocuments(text) == Kept(Pairs(text))

ParsedQuestions(text) ==
    [i \in 1..Len(ParsedDocuments(text)) |-> QuestionOf(ParsedDocuments(text)[i])]

ParsedAnswers(text) ==
    [i \in 1..Len(ParsedDocuments(text)) |-> AnswerOf(ParsedDocuments(text)[i])]

----------------------------------------------------------------------------
(* The embedding model and the FAISS index *)

Vec == 0..MaxCoord

\* squared Euclidean distance, the metric of IndexFlatL2
L2Sqr(a, b) == (a - b) * (a - b)

\* index.search pads the neighbours it does not have with label -1 and this distance
FltMax == 1000000

\* number of dimensions of the array model.encode returns for an empty list:
\* the installed sentence_transformers decides (np.asarray([]) has 1)
EncodeEmptyNdim == {1, 2}

\* self.index = None
NoIndex == [built |-> FALSE, xb |-> <<>>]

\* model.encode(self.questions): one vector per question, equal texts get equal vectors
EncodeAll(qs) ==
    {e \in [1..Len(qs) -> Vec] :
        \A i, j \in 1..Len(qs) : qs[i] = qs[j] => e[i] = e[j]}

\* model.encode([query]): the same function that embedded the stored questions
Encode(query) ==
    {v \in Vec : \A i \in 1..Len(index.xb) : questions[i] = query => index.xb[i] = v}

Min(a, b) == IF a < b THEN a ELSE b

\* IndexFlatL2.search(x, k): the sets of k (label, distance) rows it may return
IndexSearch(xb, qv, k) ==
    LET n == Len(xb)
        m == Min(k, n)
        Dist(label) == L2Sqr(xb[label + 1], qv)
        Nearest ==
            {s \in [1..m -> 0..(n - 1)] :
                /\ \A i, j \in 1..m : i # j => s[i] # s[j]
                /\ \A i \in 1..(m - 1) : Dist(s[i]) <= Dist(s[i + 1])
                /\ \A label \in 0..(n - 1) :
                      (\A i \in 1..m : s[i] # label)
                          => \A i \in 1..m : Dist(s[i]) <= Dist(label)}
    IN  {[i \in 1..k |-> IF i <= m THEN <<s[i], Dist(s[i])>> ELSE <<-1, FltMax>>] :
            s \in Nearest}

----------------------------------------------------------------------------
(* Floating point: a binary format with MantBits significant bits, round to *)
(* nearest even.  A value v stands for v / One.                             *)

RECURSIVE Pow2(_)
Pow2(n) == IF n = 0 THEN 1 ELSE 2 * Pow2(n - 1)

\* 1.0; a distance d stands for 10.0 * d / One, so that d / 10.0 is d / One
One == Pow2(MantBits + 2)

RECURSIVE BitLen(_)
BitLen(m) == IF m = 0 THEN 0 ELSE 1 + BitLen(m \div 2)

\* the nearest representable value, ties to the even significand
Round(m) ==
    IF m < Pow2(MantBits) THEN m
    ELSE LET e == BitLen(m) - MantBits
             q == m \div Pow2(e)
             rem == m % Pow2(e)
             half == Pow2(e) \div 2
         IN  IF rem > half \/ (rem = half /\ q % 2 = 1)
             THEN (q + 1) * Pow2(e)
             ELSE q * Pow2(e)

\* a - b in floating point
FSub(a, b) == IF a >= b THEN Round(a - b) ELSE 0 - Round(b - a)

Max(a, b) == IF a > b THEN a ELSE b

\* mutant of Confidence: the lower clamp max(0.0, ...) forgotten
ConfidenceUnclamped(distance) == FSub(One, Round(distance))

\* max(0.0, 1.0 - (distance / 10.0))
Confidence(distance) == Max(0, FSub(One, Round(distance)))

----------------------------------------------------------------------------
(* Query operations of RAGSystem *)

\* seq[i] of a Python list: a negative i counts from the end
PyIndex(seq, i) == IF i >= 0 THEN seq[i + 1] ELSE seq[Len(seq) + i + 1]

\* the rows of an index result the loop of search keeps
KeepRows(rows, n) == SelectSeq(rows, LAMBDA row : row[1] < n)

\* search(query, top_k), qv being the embedding of query: the lists it may return
search(qv, top_k) ==
    IF questions = <<>> \/ ~index.built
    THEN {<<>>}
    ELSE {KeepRows(rows, Len(questions)) : rows \in IndexSearch(index.xb, qv, top_k)}

None == "None"

NoAnswer == <<"I don't have information about that in my knowledge base.">>

NoContext == <<"No relevant information found in knowledge base.">>

\* the dictionary get_answer returns, results being what search(query, 1) returned
get_answer(query, results) ==
    IF results = <<>>
    THEN [question |-> query,
          answer |-> NoAnswer,
          confidence |-> 0,
          matched_question |-> None]
    ELSE [question |-> query,
          answer |-> PyIndex(answers, results[1][1]),
          confidence |-> Confidence(results[1][2]),
          matched_question |-> PyIndex(questions, results[1][1]),
          distance |-> results[1][2]]

\* top_k of get_context when the caller passes none
DefaultTopK == 2

\* one element of context_parts
ContextPart(idx) ==
    <<"Q: ">> \o PyIndex(questions, idx) \o <<"\n", "A: ">> \o PyIndex(answers, idx)

\* sep.join(parts)
RECURSIVE Join(_, _)
Join(parts, sep) ==
    IF parts = <<>> THEN <<>>
    ELSE IF Len(parts) = 1 THEN parts[1]
    ELSE parts[1] \o sep \o Join(Tail(parts), sep)

\* mutant of get_context: the blocks joined by a line break, not a blank line
get_context_one_newline(results) ==
    IF results = <<>>
    THEN NoContext
    ELSE Join([i \in 1..Len(results) |-> ContextPart(results[i][1])], <<"\n">>)

\* the string get_context returns, results being what search(query, top_k) returned
get_context(results) ==
    IF results = <<>>
    THEN NoContext
    ELSE Join([i \in 1..Len(results) |-> ContextPart(results[i][1])], <<BlankLine>>)

----------------------------------------------------------------------------
(* Actions *)

QueryTexts == {<<>>, <<"x">>}

Init ==
    /\ content \in SeqsUpTo(Tokens, MaxLen)
    /\ questions = <<>>
    /\ answers = <<>>
    /\ documents = <<>>
    /\ index = NoIndex
    /\ pc = "new"
    /\ ret = [op |-> "none"]

\* _load_knowledge_base(path) as __init__ calls it; content is its local variable
\* of that name, the text read from the file, which is gone when it returns
LoadKnowledgeBase ==
    /\ pc = "new"
    /\ questions' = ParsedQuestions(content)
    /\ answers' = ParsedAnswers(content)
    /\ documents' = ParsedDocuments(content)
    /\ IF questions' = <<>>
       THEN \E ndim \in EncodeEmptyNdim :
               IF ndim < 2
               THEN /\ pc' = "raised"
                    /\ index' = index
                    /\ ret' = [op |-> "__init__", raised |-> "IndexError"]
               ELSE /\ pc' = "ready"
                    /\ index' = [built |-> TRUE, xb |-> <<>>]
                    /\ ret' = [op |-> "__init__", raised |-> None]
       ELSE \E embeddings \in EncodeAll(questions') :
               /\ pc' = "ready"
               /\ index' = [built |-> TRUE, xb |-> embeddings]
               /\ ret' = [op |-> "__init__", raised |-> None]
    /\ content' = <<>>

\* mutant of Search: search records the query among the stored questions
SearchRecordingQuery(query, top_k) ==
    /\ pc = "ready"
    /\ \E qv \in Encode(query) : \E results \in search(qv, top_k) :
          ret' = [op |-> "search", top_k |-> top_k, value |-> results]
    /\ questions' = Append(questions, query)
    /\ UNCHANGED <<content, answers, documents, index, pc>>

\* a caller runs rag.search(query, top_k)
Search(query, top_k) ==
    /\ pc = "ready"
    /\ \E qv \in Encode(query) : \E results \in search(qv, top_k) :
          ret' = [op |-> "search", top_k |-> top_k, value |-> results]
    /\ UNCHANGED <<content, questions, answers, documents, index, pc>>

\* a caller runs rag.get_answer(query)
GetAnswer(query) ==
    /\ pc = "ready"
    /\ \E qv \in Encode(query) : \E results \in search(qv, 1) :
          ret' = [op |-> "get_answer", results |-> results,
                  value |-> get_answer(query, results)]
    /\ UNCHANGED <<content, questions, answers, documents, index, pc>>

\* a caller runs rag.get_context(query, top_k)
GetContext(query, top_k) ==
    /\ pc = "ready"
    /\ \E qv \in Encode(query) : \E results \in search(qv, top_k) :
          ret' = [op |-> "get_context", results |-> results,
                  value |-> get_context(results)]
    /\ UNCHANGED <<content, questions, answers, documents, index, pc>>

\* the tool callback of the voice agent: rag.get_context(query)
LookupCompanyInfo(query) ==
    /\ pc = "ready"
    /\ \E qv \in Encode(query) : \E results \in search(qv, DefaultTopK) :
          ret' = [op |-> "lookup_company_info", results |-> results,
                  value |-> get_context(results)]
    /\ UNCHANGED <<content, questions, answers, documents, index, pc>>

Next ==
    \/ LoadKnowledgeBase
    \/ \E query \in QueryTexts, top_k \in 1..MaxK : Search(query, top_k)
    \/ \E query \in QueryTexts : GetAnswer(query)
    \/ \E query \in QueryTexts, top_k \in 1..MaxK : GetContext(query, top_k)
    \/ \E query \in QueryTexts : LookupCompanyInfo(query)

Spec == Init /\ [][Next]_vars

----------------------------------------------------------------------------
(* The confidence mapping alone, over a range of distances *)

MaxDist == One + ExtraDist

InitConf ==
    /\ content = <<>>
    /\ questions = <<>>
    /\ answers = <<>>
    /\ documents = <<>>
    /\ index = NoIndex
    /\ pc = "confidence"
    /\ \E d1 \in 0..MaxDist, d2 \in 0..MaxDist :
          /\ d1 <= d2
          /\ ret = [op |-> "distances", d1 |-> d1, d2 |-> d2]

\* the confidence line of get_answer applied to two distances
ApplyConfidence ==
    /\ pc = "confidence"
    /\ ret.op = "distances"
    /\ ret' = [op |-> "confidence", d1 |-> ret.d1, d2 |-> ret.d2,
               c1 |-> Confidence(ret.d1), c2 |-> Confidence(ret.d2)]
    /\ UNCHANGED <<content, questions, answers, documents, index, pc>>

NextConf == ApplyConfidence

SpecConf == InitConf /\ [][NextConf]_vars

----------------------------------------------------------------------------
(* Claims *)

N == Len(questions)

NonDecreasing(rows) == \A i \in 1..(Len(rows) - 1) : rows[i][2] <= rows[i + 1][2]

\* C1: on a corpus of N >= 1 records, search(query, k) returns exactly min(k, N)
\* pairs, in non-decreasing order of distance, none of them a placeholder for a
\* neighbour that does not exist.
C1_SearchReturnsMinKN ==
    (ret.op = "search" /\ N >= 1) =>
        /\ Len(ret.value) = Min(ret.top_k, N)
        /\ NonDecreasing(ret.value)
        /\ \A i \in 1..Len(ret.value) : ret.value[i][1] >= 0

\* C2: when the file parses to no record, construction completes without raising
\* and every later search returns the empty list.
C2_EmptyCorpusNeverRaises ==
    /\ (ret.op = "__init__" /\ N = 0) => ret.raised = None
    /\ (ret.op = "search" /\ N = 0) => ret.value = <<>>

\* a block that holds the question marker and, later, the answer marker
WellFormed(pair) ==
    \E i, j \in 1..Len(pair) :
        i < j /\ pair[i] = QuestionMarker /\ pair[j] = AnswerMarker

\* C3: loading admits exactly the blocks that hold the question marker followed
\* later by the answer marker, in file order, and drops every other block.
C3_AdmitsExactlyWellFormed ==
    [][pc = "new" => documents' = SelectSeq(Pairs(content), WellFormed)]_vars

\* the text between the first question marker and the first answer marker after it
BetweenMarkers(pair) ==
    LET q == Find(pair, QuestionMarker)
        rest == SubSeq(pair, q + 1, Len(pair))
    IN  SubSeq(rest, 1, Find(rest, AnswerMarker) - 1)

\* the text after the first answer marker that follows the first question marker
AfterAnswerMarker(pair) ==
    LET q == Find(pair, QuestionMarker)
        rest == SubSeq(pair, q + 1, Len(pair))
    IN  SubSeq(rest, Find(rest, AnswerMarker) + 1, Len(rest))

\* C4: for every admitted record with the question marker before the answer marker,
\* the stored question is the trimmed text between the two markers and the stored
\* answer is the trimmed text from the answer marker to the end of the record.
C4_StoredTextIsBetweenMarkers ==
    [][pc = "new" =>
          \A i \in 1..Len(documents') :
              WellFormed(documents'[i]) =>
                  /\ questions'[i] = Strip(BetweenMarkers(documents'[i]))
                  /\ answers'[i] = Strip(AfterAnswerMarker(documents'[i]))]_vars


\* the two lines of the record at a result's index (a Python list index: a
\* negative one counts from the end of the list)
TwoLines(idx) ==
    LET at == IF idx >= 0 THEN idx + 1 ELSE N + idx + 1
    IN  <<"Q: ">> \o questions[at] \o <<"\n">> \o <<"A: ">> \o answers[at]

\* the first n results rendered, a blank line before every block but the first
RECURSIVE Rendered(_, _)
Rendered(results, n) ==
    IF n = 0 THEN <<>>
    ELSE Rendered(results, n - 1)
            \o (IF n > 1 THEN <<BlankLine>> ELSE <<>>)
            \o TwoLines(results[n][1])

Count(s, t) == Cardinality({i \in 1..Len(s) : s[i] = t})

ContextOps == {"get_context", "lookup_company_info"}

C6_TiesByLowerIndex ==
    ret.op = "search" =>
        /\ \A i \in 1..(Len(ret.value) - 1) :
              (ret.value[i][1] >= 0 /\ ret.value[i + 1][1] >= 0
                  /\ ret.value[i][2] = ret.value[i + 1][2])
                  => ret.value[i][1] < ret.value[i + 1][1]
        /\ (ret.top_k = 1 /\ N = 2 /\ index.xb[1] = index.xb[2])
              => ret.value[1][1] = 0

\* C7: get_answer on an empty corpus returns the fallback: the query, the fixed
\* answer, confidence 0.0, matched_question null and distance null, every field
\* being present.
C7_FallbackHasEveryField ==
    (ret.op = "get_answer" /\ N = 0) =>
        /\ DOMAIN ret.value =
              {"question", "answer", "confidence", "matched_question", "distance"}
        /\ ret.value.question \in QueryTexts
        /\ ret.value.answer = NoAnswer
        /\ ret.value.confidence = 0
        /\ ret.value.matched_question = None
        /\ ret.value.distance = None

\* the four properties of the confidence of one pair of distances d1 <= d2 that
\* do not concern the value 1.0
ConfidenceShape ==
    /\ ret.c1 \in 0..One
    /\ ret.c2 \in 0..One
    /\ ret.c1 >= ret.c2
    /\ ret.d1 >= One => ret.c1 = 0
    /\ ret.d2 >= One => ret.c2 = 0
    /\ ret.d1 = 0 => ret.c1 = One

\* C8 as stated: the confidence lies in [0.0, 1.0], does not increase with the
\* distance, is 0.0 for every distance >= 10, and is 1.0 only for distance 0.0.
C8_ConfidenceOneOnlyAtZero ==
    ret.op = "confidence" =>
        /\ ConfidenceShape
        /\ ret.c1 = One => ret.d1 = 0
        /\ ret.c2 = One => ret.d2 = 0

\* C8 amended: the confidence lies in [0.0, 1.0], does not increase with the
\* distance, is 0.0 for every distance >= 10, is 1.0 for distance 0.0, and is 1.0
\* exactly for the distances whose tenth is at most half the spacing of the floating
\* point numbers just below 1.0 (there 1.0 - distance/10.0 rounds to 1.0).
C8_ConfidenceOneUpToHalfSpacing ==
    ret.op = "confidence" =>
        /\ ConfidenceShape
        /\ ret.c1 = One <=> ret.d1 * Pow2(MantBits + 1) <= One
        /\ ret.c2 = One <=> ret.d2 * Pow2(MantBits + 1) <= One

\* C8 witness: a positive distance got confidence 1.0 and one of 10 or more got 0.0
C8_Witness ==
    /\ ret.op = "confidence"
    /\ ret.d1 > 0
    /\ ret.c1 = One
    /\ ret.d2 >= One
    /\ ret.c2 = 0

C10_IndicesValidAndDistinct ==
    LET rows == IF ret.op = "search" THEN ret.value
                ELSE IF ret.op \in ContextOps \cup {"get_answer"} THEN ret.results
                ELSE <<>>
    IN  /\ \A i \in 1..Len(rows) : rows[i][1] >= 0 /\ rows[i][1] < N
        /\ \A i, j \in 1..Len(rows) : i # j => rows[i][1] # rows[j][1]

====
